---- MODULE Spec2Model ----
(***************************************************************************)
(* A model of the gcsfuse file system coordinator (src/fs/fs.go): the      *)
(* inode table, the directory name index, the handle table, the two       *)
(* counters, the owner fields, and the locks that guard them.  Each FUSE  *)
(* method is a sequence of steps of a calling goroutine; the steps are    *)
(* cut at the lock operations and at the calls into collaborators.        *)
(***************************************************************************)
EXTENDS Integers, Sequences, FiniteSets, TLC

\* ------------------------------------------------------------------------
\* Bounds
\* ------------------------------------------------------------------------
NumThreads == 2
MaxCalls == 3

Threads == 1..NumThreads

\* ------------------------------------------------------------------------
\* Program constants
\* ------------------------------------------------------------------------
RootInodeID == 1

\* Names are sequences of characters.
RootName == <<>>
Separator == "/"

\* ------------------------------------------------------------------------
\* Inputs the callers draw from
\* ------------------------------------------------------------------------
ChildNames == { <<"a", "/">>, <<"f">> }
Credentials == { [Uid |-> 500, Gid |-> 500], [Uid |-> 501, Gid |-> 20] }
RawOwners == { [Uid |-> 0, Gid |-> 0], [Uid |-> 99, Gid |-> 98] }
InodeArgs == 1..2
HandleArgs == 0..1
PageSizes == 0..1

VARIABLES
    checking,      \* whether syncutil invariant checking is enabled in this build
    uid, gid,      \* fs.uid, fs.gid
    dirInodes,     \* the heap of *inode.DirInode objects, by reference
    inodes,        \* fs.inodes: inode ID -> reference
    nextInodeID,   \* fs.nextInodeID
    dirNameIndex,  \* fs.dirNameIndex: name -> reference
    dirHandles,    \* the heap of *dirHandle objects, by reference
    handles,       \* fs.handles: handle ID -> reference
    nextHandleID,  \* fs.nextHandleID
    muWriter,      \* fs.mu: the goroutine holding it exclusively, or 0
    muReaders,     \* fs.mu: the goroutines holding it shared
    inMu,          \* DirInode.Mu: reference -> goroutines holding it shared
    dhMu,          \* dirHandle.Mu: reference -> the goroutine holding it, or 0
    pc,            \* each goroutine's position
    req,           \* each goroutine's request
    frame,         \* each goroutine's local variables
    ret,           \* what the goroutine's last call returned
    aborted,       \* the process has died of an unrecovered panic
    calls,         \* number of calls issued so far
    minted,        \* handle IDs in the order OpenDir allocated them
    opened,        \* handle IDs returned by completed OpenDir calls
    released,      \* handle IDs whose ReleaseDirHandle has completed
    snap           \* the coordinator state a goroutine saw when it locked fs.mu

fsVars == <<uid, gid, dirInodes, inodes, nextInodeID, dirNameIndex,
            dirHandles, handles, nextHandleID>>
lockVars == <<muWriter, muReaders, inMu, dhMu>>
histVars == <<calls, minted, opened, released>>
vars == <<checking, uid, gid, dirInodes, inodes, nextInodeID, dirNameIndex,
          dirHandles, handles, nextHandleID, muWriter, muReaders, inMu, dhMu,
          pc, req, frame, ret, aborted, calls, minted, opened, released, snap>>

\* ------------------------------------------------------------------------
\* Helpers
\* ------------------------------------------------------------------------

\* isDirName with the comparison inverted.
isDirName_Inverted(name) == name = <<>> \/ name[Len(name)] # Separator

\* func isDirName(name string) bool
isDirName(name) == name = <<>> \/ name[Len(name)] = Separator

Range(f) == { f[k] : k \in DOMAIN f }

\* A Go map with key k set to v.
MapSet(m, k, v) == [x \in (DOMAIN m) \cup {k} |-> IF x = k THEN v ELSE m[x]]

\* A Go map with key k deleted.
MapDelete(m, k) == [x \in (DOMAIN m) \ {k} |-> m[x]]

\* inode.NewDirInode(bucket, id, name): a fresh object carrying id and name.
NewDirInode(id, name) == [ID |-> id, Name |-> name]

\* newDirHandle(in): a fresh handle on the directory, cursor at the start.
newDirHandle(in) == [in |-> in, cursor |-> 0]

\* The coordinator's collections and counters, as one value.
Coordinator ==
    [uid |-> uid, gid |-> gid, dirInodes |-> dirInodes, inodes |-> inodes,
     nextInodeID |-> nextInodeID, dirNameIndex |-> dirNameIndex,
     dirHandles |-> [h \in DOMAIN dirHandles |-> dirHandles[h].in],
     handles |-> handles, nextHandleID |-> nextHandleID]

\* func (fs *fileSystem) checkInvariants(): TRUE iff it does not panic.
checkInvariants ==
    /\ \A id \in DOMAIN inodes : id >= RootInodeID /\ id < nextInodeID
    /\ RootInodeID \in DOMAIN inodes
    /\ \A id \in DOMAIN inodes :
          LET in == dirInodes[inodes[id]] IN
            /\ in.ID = id
            /\ isDirName(in.Name)
            /\ in.Name \in DOMAIN dirNameIndex
            /\ dirNameIndex[in.Name] = inodes[id]
    /\ Cardinality(DOMAIN dirNameIndex) = Cardinality(DOMAIN inodes)
    /\ \A id \in DOMAIN handles : id < nextHandleID

\* ------------------------------------------------------------------------
\* Initial state
\* ------------------------------------------------------------------------
NoRequest == [op |-> "none", Parent |-> 0, Name |-> <<>>, Inode |-> 0,
              Handle |-> 0, Uid |-> 0, Gid |-> 0]
NoFrame == [parent |-> 0, in |-> 0, id |-> 0, dh |-> 0, o |-> <<>>,
            err |-> "nil", resp |-> <<>>]
NoReturn == [op |-> "none", err |-> "nil", resp |-> <<>>]
ZeroAttributes == [Uid |-> 0, Gid |-> 0]
ZeroResponse == [Child |-> 0, Attributes |-> ZeroAttributes, Handle |-> 0,
                 Entries |-> 0]

\* NewFileSystem starting the inode counter at the root's own ID.
NewFileSystem_CounterAtRoot ==
    /\ uid = 0
    /\ gid = 0
    /\ dirInodes = << NewDirInode(RootInodeID, RootName) >>
    /\ inodes = (RootInodeID :> 1)
    /\ nextInodeID = RootInodeID
    /\ dirNameIndex = (RootName :> 1)
    /\ dirHandles = << >>
    /\ handles = << >>
    /\ nextHandleID = 0
    /\ muWriter = 0
    /\ muReaders = {}
    /\ inMu = << {} >>
    /\ dhMu = << >>

\* func NewFileSystem(clock, bucket)
NewFileSystem ==
    /\ uid = 0
    /\ gid = 0
    /\ dirInodes = << NewDirInode(RootInodeID, RootName) >>
    /\ inodes = (RootInodeID :> 1)
    /\ nextInodeID = RootInodeID + 1
    /\ dirNameIndex = (RootName :> 1)
    /\ dirHandles = << >>
    /\ handles = << >>
    /\ nextHandleID = 0
    /\ muWriter = 0
    /\ muReaders = {}
    /\ inMu = << {} >>
    /\ dhMu = << >>

Init ==
    /\ NewFileSystem
    /\ checking \in BOOLEAN
    /\ pc = [t \in Threads |-> "idle"]
    /\ req = [t \in Threads |-> NoRequest]
    /\ frame = [t \in Threads |-> NoFrame]
    /\ ret = [t \in Threads |-> NoReturn]
    /\ aborted = FALSE
    /\ calls = 0
    /\ minted = << >>
    /\ opened = {}
    /\ released = {}
    /\ snap = [t \in Threads |-> << >>]

\* ------------------------------------------------------------------------
\* Collaborators (package inode, dir_handle.go, the backing store)
\* ------------------------------------------------------------------------

\* DirInode.LookUpChild(ctx, name): the record of the object named by the
\* directory's name followed by the leaf name, or a failure.
LookUpChild(dirName, name) ==
    { [err |-> "nil", o |-> << [Name |-> dirName \o name] >>],
      [err |-> "NotFound", o |-> << >>],
      [err |-> "Cancelled", o |-> << >>] }

\* DirInode.Attributes(ctx): what the entity itself reports, or a failure.
Attributes ==
    { [err |-> "nil", attrs |-> a] : a \in RawOwners }
      \cup { [err |-> "AttributesFailed", attrs |-> ZeroAttributes] }

\* dirHandle.ReadDir(ctx, req): a page of entries, or a failure.
dirHandleReadDir ==
    { [err |-> "nil", n |-> n] : n \in PageSizes }
      \cup { [err |-> "ListFailed", n |-> 0] }

\* ------------------------------------------------------------------------
\* syncutil.InvariantMutex over sync.RWMutex
\* ------------------------------------------------------------------------
CheckFails == checking /\ ~checkInvariants

\* fs.mu.Lock(): returns to label next, or panics in the invariant check
\* before the deferred Unlock is registered.
MuLock(t, next) ==
    /\ muWriter = 0
    /\ muReaders = {}
    /\ muWriter' = t
    /\ UNCHANGED muReaders
    /\ pc' = [pc EXCEPT ![t] = IF CheckFails THEN "crash" ELSE next]
    /\ snap' = [snap EXCEPT ![t] = << Coordinator >>]

\* fs.mu.RLock()
MuRLock(t, next) ==
    /\ muWriter = 0
    /\ muReaders' = muReaders \cup {t}
    /\ UNCHANGED muWriter
    /\ pc' = [pc EXCEPT ![t] = IF CheckFails THEN "crash" ELSE next]
    /\ snap' = [snap EXCEPT ![t] = << Coordinator >>]

\* What a call leaves behind when it returns: the response and error the
\* caller receives.  A panicking goroutine returns nothing and goes on to
\* kill the process.
Return(t) ==
    IF frame[t].err = "panic"
    THEN /\ pc' = [pc EXCEPT ![t] = "crash"]
         /\ UNCHANGED <<req, frame, ret>>
    ELSE /\ pc' = [pc EXCEPT ![t] = "idle"]
         /\ ret' = [ret EXCEPT ![t] = [op |-> req[t].op, err |-> frame[t].err,
                                        resp |-> frame[t].resp]]
         /\ req' = [req EXCEPT ![t] = NoRequest]
         /\ frame' = [frame EXCEPT ![t] = NoFrame]

\* The deferred fs.mu.Unlock(), the last thing a call does.
MuUnlock(t) ==
    IF CheckFails
    THEN /\ pc' = [pc EXCEPT ![t] = "crash"]
         /\ UNCHANGED <<muWriter, muReaders, req, frame, ret, snap>>
    ELSE /\ muWriter' = 0
         /\ UNCHANGED muReaders
         /\ snap' = [snap EXCEPT ![t] = << >>]
         /\ Return(t)

\* The deferred fs.mu.RUnlock(), the last thing a call does.
MuRUnlock(t) ==
    IF CheckFails
    THEN /\ pc' = [pc EXCEPT ![t] = "crash"]
         /\ UNCHANGED <<muWriter, muReaders, req, frame, ret, snap>>
    ELSE /\ muReaders' = muReaders \ {t}
         /\ UNCHANGED muWriter
         /\ snap' = [snap EXCEPT ![t] = << >>]
         /\ Return(t)

\* An unrecovered panic, its deferred calls run, ends the process: the
\* panicking goroutine is dead and every other goroutine is killed where it
\* stands.
Abort(t) ==
    /\ pc[t] = "crash"
    /\ aborted' = TRUE
    /\ pc' = [u \in Threads |-> IF u = t \/ pc[u] = "dead" THEN "dead" ELSE "killed"]
    /\ UNCHANGED <<checking, fsVars, lockVars, req, frame, ret, histVars, snap>>

\* ------------------------------------------------------------------------
\* The kernel issues a request; a goroutine starts serving it.
\* ------------------------------------------------------------------------
Requests ==
    { [NoRequest EXCEPT !.op = "Init", !.Uid = c.Uid, !.Gid = c.Gid] :
        c \in Credentials }
    \cup { [NoRequest EXCEPT !.op = "LookUpInode", !.Parent = p, !.Name = n] :
        p \in InodeArgs, n \in ChildNames }
    \cup { [NoRequest EXCEPT !.op = "GetInodeAttributes", !.Inode = i] :
        i \in InodeArgs }
    \cup { [NoRequest EXCEPT !.op = "OpenDir", !.Inode = i] : i \in InodeArgs }
    \cup { [NoRequest EXCEPT !.op = "ReadDir", !.Handle = h] : h \in HandleArgs }
    \cup { [NoRequest EXCEPT !.op = "ReleaseDirHandle", !.Handle = h] :
        h \in HandleArgs }

\* The first step of each method.
Entry(op) ==
    CASE op = "Init" -> "i_lock"
      [] op = "LookUpInode" -> "l_lock"
      [] op = "GetInodeAttributes" -> "g_rlock"
      [] op = "OpenDir" -> "o_lock"
      [] op = "ReadDir" -> "r_rlock"
      [] op = "ReleaseDirHandle" -> "d_lock"

\* The named result resp as the method's first statement leaves it:
\* LookUpInode and ReadDir do not allocate it.
InitialResp(op) ==
    IF op \in {"LookUpInode", "ReadDir"} THEN << >> ELSE << ZeroResponse >>

Call(t) ==
    /\ pc[t] = "idle"
    /\ calls < MaxCalls
    /\ \E r \in Requests :
          /\ req' = [req EXCEPT ![t] = r]
          /\ frame' = [frame EXCEPT ![t] = [NoFrame EXCEPT !.resp = InitialResp(r.op)]]
          /\ pc' = [pc EXCEPT ![t] = Entry(r.op)]
    /\ ret' = [ret EXCEPT ![t] = NoReturn]
    /\ calls' = calls + 1
    /\ UNCHANGED <<checking, fsVars, lockVars, aborted, minted, opened, released, snap>>

\* ------------------------------------------------------------------------
\* func (fs *fileSystem) Init
\* ------------------------------------------------------------------------
Init_Lock(t) ==
    /\ pc[t] = "i_lock"
    /\ MuLock(t, "i_store")
    /\ UNCHANGED <<checking, fsVars, inMu, dhMu, req, frame, ret, aborted, histVars>>

Init_Store(t) ==
    /\ pc[t] = "i_store"
    /\ uid' = req[t].Uid
    /\ gid' = req[t].Gid
    /\ pc' = [pc EXCEPT ![t] = "i_unlock"]
    /\ UNCHANGED <<checking, dirInodes, inodes, nextInodeID, dirNameIndex,
                   dirHandles, handles, nextHandleID, lockVars, req, frame, ret,
                   aborted, histVars, snap>>

Init_Unlock(t) ==
    /\ pc[t] = "i_unlock"
    /\ MuUnlock(t)
    /\ UNCHANGED <<checking, fsVars, inMu, dhMu, aborted, histVars>>

\* ------------------------------------------------------------------------
\* func (fs *fileSystem) LookUpInode
\* ------------------------------------------------------------------------
Step(t, label, f) ==
    /\ pc' = [pc EXCEPT ![t] = label]
    /\ frame' = [frame EXCEPT ![t] = f]

LookUpInode_Lock(t) ==
    /\ pc[t] = "l_lock"
    /\ MuLock(t, "l_parent")
    /\ UNCHANGED <<checking, fsVars, inMu, dhMu, req, frame, ret, aborted, histVars>>

\* parent := fs.inodes[req.Parent].(*inode.DirInode)
LookUpInode_Parent(t) ==
    /\ pc[t] = "l_parent"
    /\ IF req[t].Parent \in DOMAIN inodes
       THEN Step(t, "l_child", [frame[t] EXCEPT !.parent = inodes[req[t].Parent]])
       ELSE Step(t, "l_unlock", [frame[t] EXCEPT !.err = "panic"])
    /\ UNCHANGED <<checking, fsVars, lockVars, req, ret, aborted, histVars, snap>>

\* The child lookup with the inode counter advanced before the backing
\* store has answered.
LookUpInode_Child_MintFirst(t) ==
    /\ pc[t] = "l_child"
    /\ \E r \in LookUpChild(dirInodes[frame[t].parent].Name, req[t].Name) :
          IF r.err # "nil"
          THEN Step(t, "l_unlock", [frame[t] EXCEPT !.err = r.err])
          ELSE Step(t, "l_classify", [frame[t] EXCEPT !.o = r.o])
    /\ nextInodeID' = nextInodeID + 1
    /\ UNCHANGED <<checking, uid, gid, dirInodes, inodes, dirNameIndex, dirHandles,
                   handles, nextHandleID, lockVars, req, ret, aborted, histVars, snap>>

\* o, err := parent.LookUpChild(ctx, req.Name)
LookUpInode_Child(t) ==
    /\ pc[t] = "l_child"
    /\ \E r \in LookUpChild(dirInodes[frame[t].parent].Name, req[t].Name) :
          IF r.err # "nil"
          THEN Step(t, "l_unlock", [frame[t] EXCEPT !.err = r.err])
          ELSE Step(t, "l_classify", [frame[t] EXCEPT !.o = r.o])
    /\ UNCHANGED <<checking, fsVars, lockVars, req, ret, aborted, histVars, snap>>

\* if isDirName(o.Name) { lookUpOrCreateDirInode } else { err = errors.New }
LookUpInode_Classify(t) ==
    /\ pc[t] = "l_classify"
    /\ IF isDirName(frame[t].o[1].Name)
       THEN Step(t, "loc_find", frame[t])
       ELSE Step(t, "l_unlock", [frame[t] EXCEPT !.err = "Unimplemented"])
    /\ UNCHANGED <<checking, fsVars, lockVars, req, ret, aborted, histVars, snap>>

\* lookUpOrCreateDirInode: if in = fs.dirNameIndex[o.Name]; in != nil { return }
lookUpOrCreateDirInode_Find(t) ==
    /\ pc[t] = "loc_find"
    /\ IF frame[t].o[1].Name \in DOMAIN dirNameIndex
       THEN Step(t, "l_fill", [frame[t] EXCEPT !.in = dirNameIndex[frame[t].o[1].Name]])
       ELSE Step(t, "loc_mint", frame[t])
    /\ UNCHANGED <<checking, fsVars, lockVars, req, ret, aborted, histVars, snap>>

\* The mint without the increment of the counter.
lookUpOrCreateDirInode_Mint_NoAdvance(t) ==
    /\ pc[t] = "loc_mint"
    /\ nextInodeID' = nextInodeID
    /\ Step(t, "loc_create", [frame[t] EXCEPT !.id = nextInodeID])
    /\ UNCHANGED <<checking, uid, gid, dirInodes, inodes, dirNameIndex, dirHandles,
                   handles, nextHandleID, lockVars, req, ret, aborted, histVars, snap>>

\* lookUpOrCreateDirInode: id := fs.nextInodeID; fs.nextInodeID++
lookUpOrCreateDirInode_Mint(t) ==
    /\ pc[t] = "loc_mint"
    /\ nextInodeID' = nextInodeID + 1
    /\ Step(t, "loc_create", [frame[t] EXCEPT !.id = nextInodeID])
    /\ UNCHANGED <<checking, uid, gid, dirInodes, inodes, dirNameIndex, dirHandles,
                   handles, nextHandleID, lockVars, req, ret, aborted, histVars, snap>>

\* lookUpOrCreateDirInode: in = inode.NewDirInode(...); fs.inodes[id] = in
lookUpOrCreateDirInode_Create(t) ==
    /\ pc[t] = "loc_create"
    /\ dirInodes' = Append(dirInodes, NewDirInode(frame[t].id, frame[t].o[1].Name))
    /\ inMu' = Append(inMu, {})
    /\ inodes' = MapSet(inodes, frame[t].id, Len(dirInodes) + 1)
    /\ Step(t, "loc_index", [frame[t] EXCEPT !.in = Len(dirInodes) + 1])
    /\ UNCHANGED <<checking, uid, gid, nextInodeID, dirNameIndex, dirHandles,
                   handles, nextHandleID, muWriter, muReaders, dhMu, req, ret,
                   aborted, histVars, snap>>

\* The new inode stored in fs.inodes but never indexed by name.
lookUpOrCreateDirInode_Index_Skipped(t) ==
    /\ pc[t] = "loc_index"
    /\ dirNameIndex' = dirNameIndex
    /\ Step(t, "l_fill", frame[t])
    /\ UNCHANGED <<checking, uid, gid, dirInodes, inodes, nextInodeID, dirHandles,
                   handles, nextHandleID, lockVars, req, ret, aborted, histVars, snap>>

\* lookUpOrCreateDirInode: fs.dirNameIndex[in.Name()] = in
lookUpOrCreateDirInode_Index(t) ==
    /\ pc[t] = "loc_index"
    /\ dirNameIndex' = MapSet(dirNameIndex, dirInodes[frame[t].in].Name, frame[t].in)
    /\ Step(t, "l_fill", frame[t])
    /\ UNCHANGED <<checking, uid, gid, dirInodes, inodes, nextInodeID, dirHandles,
                   handles, nextHandleID, lockVars, req, ret, aborted, histVars, snap>>

\* resp.Entry.Child = in.ID(); resp.Entry.Attributes, err = in.Attributes(ctx)
\* (resp is the named result, a nil pointer unless something allocated it)
FillResponse(f, a) ==
    IF f.resp = << >>
    THEN [f EXCEPT !.err = "panic"]
    ELSE [f EXCEPT !.resp = << [f.resp[1] EXCEPT !.Child = dirInodes[f.in].ID,
                                                !.Attributes = a.attrs] >>,
                   !.err = a.err]

LookUpInode_Fill(t) ==
    /\ pc[t] = "l_fill"
    /\ \E a \in Attributes : Step(t, "l_unlock", FillResponse(frame[t], a))
    /\ UNCHANGED <<checking, fsVars, lockVars, req, ret, aborted, histVars, snap>>

LookUpInode_Unlock(t) ==
    /\ pc[t] = "l_unlock"
    /\ MuUnlock(t)
    /\ UNCHANGED <<checking, fsVars, inMu, dhMu, aborted, histVars>>

\* ------------------------------------------------------------------------
\* func (fs *fileSystem) GetInodeAttributes
\* ------------------------------------------------------------------------
GetInodeAttributes_RLock(t) ==
    /\ pc[t] = "g_rlock"
    /\ MuRLock(t, "g_find")
    /\ UNCHANGED <<checking, fsVars, inMu, dhMu, req, frame, ret, aborted, histVars>>

\* The unknown inode answered with an error instead of the panic.
GetInodeAttributes_Find_SoftError(t) ==
    /\ pc[t] = "g_find"
    /\ IF req[t].Inode \in DOMAIN inodes
       THEN Step(t, "g_attrs", [frame[t] EXCEPT !.in = inodes[req[t].Inode]])
       ELSE Step(t, "g_runlock", [frame[t] EXCEPT !.err = "UnknownInode"])
    /\ UNCHANGED <<checking, fsVars, lockVars, req, ret, aborted, histVars, snap>>

\* in := fs.inodes[req.Inode]; the type switch panics on anything but a
\* *inode.DirInode, a missing key's nil included.
GetInodeAttributes_Find(t) ==
    /\ pc[t] = "g_find"
    /\ IF req[t].Inode \in DOMAIN inodes
       THEN Step(t, "g_attrs", [frame[t] EXCEPT !.in = inodes[req[t].Inode]])
       ELSE Step(t, "g_runlock", [frame[t] EXCEPT !.err = "panic"])
    /\ UNCHANGED <<checking, fsVars, lockVars, req, ret, aborted, histVars, snap>>

\* func (fs *fileSystem) getAttributes: overlay the owner on what the
\* directory reported, unless it failed.
getAttributes(a) ==
    IF a.err # "nil"
    THEN a
    ELSE [a EXCEPT !.attrs = [a.attrs EXCEPT !.Uid = uid, !.Gid = gid]]

\* The owner fix-up assigned the wrong way round: the directory's reported
\* owner stored into fs.uid and fs.gid.
GetInodeAttributes_Attrs_StoresOwner(t) ==
    /\ pc[t] = "g_attrs"
    /\ \E a \in Attributes :
          /\ uid' = a.attrs.Uid
          /\ gid' = a.attrs.Gid
          /\ Step(t, "g_runlock",
                  [frame[t] EXCEPT !.resp = << [frame[t].resp[1] EXCEPT
                                                  !.Attributes = a.attrs] >>,
                                   !.err = IF a.err = "nil" THEN "nil"
                                           ELSE "DirInode.Attributes"])
    /\ UNCHANGED <<checking, dirInodes, inodes, nextInodeID, dirNameIndex,
                   dirHandles, handles, nextHandleID, lockVars, req, ret, aborted,
                   histVars, snap>>

\* resp.Attributes, err = fs.getAttributes(ctx, typed)
GetInodeAttributes_Attrs(t) ==
    /\ pc[t] = "g_attrs"
    /\ \E a \in Attributes :
          LET r == getAttributes(a) IN
            Step(t, "g_runlock",
                 [frame[t] EXCEPT !.resp = << [frame[t].resp[1] EXCEPT
                                                 !.Attributes = r.attrs] >>,
                                  !.err = IF r.err = "nil" THEN "nil"
                                          ELSE "DirInode.Attributes"])
    /\ UNCHANGED <<checking, fsVars, lockVars, req, ret, aborted, histVars, snap>>

GetInodeAttributes_RUnlock(t) ==
    /\ pc[t] = "g_runlock"
    /\ MuRUnlock(t)
    /\ UNCHANGED <<checking, fsVars, inMu, dhMu, aborted, histVars>>

\* ------------------------------------------------------------------------
\* func (fs *fileSystem) OpenDir
\* ------------------------------------------------------------------------
\* OpenDir taking fs.mu shared instead of exclusively.
OpenDir_Lock_Shared(t) ==
    /\ pc[t] = "o_lock"
    /\ MuRLock(t, "o_getdir")
    /\ UNCHANGED <<checking, fsVars, inMu, dhMu, req, frame, ret, aborted, histVars>>

OpenDir_Lock(t) ==
    /\ pc[t] = "o_lock"
    /\ MuLock(t, "o_getdir")
    /\ UNCHANGED <<checking, fsVars, inMu, dhMu, req, frame, ret, aborted, histVars>>

\* in := fs.getDirForReadingOrDie(req.Inode): the type assertion panics on
\* a missing inode; otherwise in.Mu.RLock().  No code of the coordinator
\* takes a DirInode's lock exclusively, so the RLock never waits.
getDirForReadingOrDie(t) ==
    /\ pc[t] = "o_getdir"
    /\ IF req[t].Inode \in DOMAIN inodes
       THEN /\ inMu' = [inMu EXCEPT ![inodes[req[t].Inode]] = @ \cup {t}]
            /\ Step(t, "o_alloc", [frame[t] EXCEPT !.in = inodes[req[t].Inode]])
       ELSE /\ UNCHANGED inMu
            /\ Step(t, "o_unlock", [frame[t] EXCEPT !.err = "panic"])
    /\ UNCHANGED <<checking, fsVars, muWriter, muReaders, dhMu, req, ret, aborted,
                   histVars, snap>>

\* The handle allocated without the increment of the counter.
OpenDir_Alloc_NoAdvance(t) ==
    /\ pc[t] = "o_alloc"
    /\ nextHandleID' = nextHandleID
    /\ dirHandles' = Append(dirHandles, newDirHandle(frame[t].in))
    /\ dhMu' = Append(dhMu, 0)
    /\ handles' = MapSet(handles, nextHandleID, Len(dirHandles) + 1)
    /\ Step(t, "o_inunlock",
            [frame[t] EXCEPT !.resp = << [frame[t].resp[1] EXCEPT
                                            !.Handle = nextHandleID] >>])
    /\ minted' = Append(minted, nextHandleID)
    /\ UNCHANGED <<checking, uid, gid, dirInodes, inodes, nextInodeID, dirNameIndex,
                   muWriter, muReaders, inMu, req, ret, aborted, calls, opened,
                   released, snap>>

\* handleID := fs.nextHandleID; fs.nextHandleID++
\* fs.handles[handleID] = newDirHandle(in); resp.Handle = handleID
OpenDir_Alloc(t) ==
    /\ pc[t] = "o_alloc"
    /\ nextHandleID' = nextHandleID + 1
    /\ dirHandles' = Append(dirHandles, newDirHandle(frame[t].in))
    /\ dhMu' = Append(dhMu, 0)
    /\ handles' = MapSet(handles, nextHandleID, Len(dirHandles) + 1)
    /\ Step(t, "o_inunlock",
            [frame[t] EXCEPT !.resp = << [frame[t].resp[1] EXCEPT
                                            !.Handle = nextHandleID] >>])
    /\ minted' = Append(minted, nextHandleID)
    /\ UNCHANGED <<checking, uid, gid, dirInodes, inodes, nextInodeID, dirNameIndex,
                   muWriter, muReaders, inMu, req, ret, aborted, calls, opened,
                   released, snap>>

\* The deferred calls in the wrong order: fs.mu released while the
\* directory's lock is still held.
OpenDir_InUnlock_MuFirst(t) ==
    /\ pc[t] = "o_inunlock"
    /\ muWriter' = 0
    /\ pc' = [pc EXCEPT ![t] = "o_unlock"]
    /\ UNCHANGED <<checking, fsVars, muReaders, inMu, dhMu, req, frame, ret,
                   aborted, histVars, snap>>

\* defer in.Mu.RUnlock()
OpenDir_InUnlock(t) ==
    /\ pc[t] = "o_inunlock"
    /\ inMu' = [inMu EXCEPT ![frame[t].in] = @ \ {t}]
    /\ pc' = [pc EXCEPT ![t] = "o_unlock"]
    /\ UNCHANGED <<checking, fsVars, muWriter, muReaders, dhMu, req, frame, ret,
                   aborted, histVars, snap>>

\* defer fs.mu.Unlock()
OpenDir_Unlock(t) ==
    /\ pc[t] = "o_unlock"
    /\ MuUnlock(t)
    /\ opened' = IF pc'[t] = "idle" THEN opened \cup {frame[t].resp[1].Handle}
                  ELSE opened
    /\ UNCHANGED <<checking, fsVars, inMu, dhMu, aborted, calls, minted, released>>

\* ------------------------------------------------------------------------
\* func (fs *fileSystem) ReadDir
\* ------------------------------------------------------------------------
\* ReadDir going on without fs.mu.
ReadDir_RLock_Skipped(t) ==
    /\ pc[t] = "r_rlock"
    /\ pc' = [pc EXCEPT ![t] = "r_find"]
    /\ snap' = [snap EXCEPT ![t] = << Coordinator >>]
    /\ UNCHANGED <<checking, fsVars, lockVars, req, frame, ret, aborted, histVars>>

ReadDir_RLock(t) ==
    /\ pc[t] = "r_rlock"
    /\ MuRLock(t, "r_find")
    /\ UNCHANGED <<checking, fsVars, inMu, dhMu, req, frame, ret, aborted, histVars>>

\* dh := fs.handles[req.Handle].(*dirHandle)
ReadDir_Find(t) ==
    /\ pc[t] = "r_find"
    /\ IF req[t].Handle \in DOMAIN handles
       THEN Step(t, "r_dhlock", [frame[t] EXCEPT !.dh = handles[req[t].Handle]])
       ELSE Step(t, "r_runlock", [frame[t] EXCEPT !.err = "panic"])
    /\ UNCHANGED <<checking, fsVars, lockVars, req, ret, aborted, histVars, snap>>

\* ReadDir going on to the listing without waiting for the handle's lock.
ReadDir_DhLock_NoWait(t) ==
    /\ pc[t] = "r_dhlock"
    /\ dhMu' = [dhMu EXCEPT ![frame[t].dh] = t]
    /\ pc' = [pc EXCEPT ![t] = "r_list"]
    /\ UNCHANGED <<checking, fsVars, muWriter, muReaders, inMu, req, frame, ret,
                   aborted, histVars, snap>>

\* dh.Mu.Lock()
ReadDir_DhLock(t) ==
    /\ pc[t] = "r_dhlock"
    /\ dhMu[frame[t].dh] = 0
    /\ dhMu' = [dhMu EXCEPT ![frame[t].dh] = t]
    /\ pc' = [pc EXCEPT ![t] = "r_list"]
    /\ UNCHANGED <<checking, fsVars, muWriter, muReaders, inMu, req, frame, ret,
                   aborted, histVars, snap>>

\* resp, err = dh.ReadDir(ctx, req): the handle starts listing ...
ReadDir_List(t) ==
    /\ pc[t] = "r_list"
    /\ pc' = [pc EXCEPT ![t] = "r_listing"]
    /\ UNCHANGED <<checking, fsVars, lockVars, req, frame, ret, aborted, histVars, snap>>

\* ... and comes back with a page, its cursor advanced by the page's size.
ReadDir_Listed(t) ==
    /\ pc[t] = "r_listing"
    /\ \E r \in dirHandleReadDir :
          /\ dirHandles' = [dirHandles EXCEPT ![frame[t].dh].cursor = @ + r.n]
          /\ Step(t, "r_dhunlock",
                  [frame[t] EXCEPT
                     !.resp = IF r.err = "nil"
                              THEN << [ZeroResponse EXCEPT !.Entries = r.n] >>
                              ELSE << >>,
                     !.err = r.err])
    /\ UNCHANGED <<checking, uid, gid, dirInodes, inodes, nextInodeID, dirNameIndex,
                   handles, nextHandleID, lockVars, req, ret, aborted, histVars, snap>>

\* ReadDir returning without giving the handle's lock back.
ReadDir_DhUnlock_Forgotten(t) ==
    /\ pc[t] = "r_dhunlock"
    /\ dhMu' = dhMu
    /\ pc' = [pc EXCEPT ![t] = "r_runlock"]
    /\ UNCHANGED <<checking, fsVars, muWriter, muReaders, inMu, req, frame, ret,
                   aborted, histVars, snap>>

\* defer dh.Mu.Unlock()
ReadDir_DhUnlock(t) ==
    /\ pc[t] = "r_dhunlock"
    /\ dhMu' = [dhMu EXCEPT ![frame[t].dh] = 0]
    /\ pc' = [pc EXCEPT ![t] = "r_runlock"]
    /\ UNCHANGED <<checking, fsVars, muWriter, muReaders, inMu, req, frame, ret,
                   aborted, histVars, snap>>

\* defer fs.mu.RUnlock()
ReadDir_RUnlock(t) ==
    /\ pc[t] = "r_runlock"
    /\ MuRUnlock(t)
    /\ UNCHANGED <<checking, fsVars, inMu, dhMu, aborted, histVars>>

\* ------------------------------------------------------------------------
\* func (fs *fileSystem) ReleaseDirHandle
\* ------------------------------------------------------------------------
ReleaseDirHandle_Lock(t) ==
    /\ pc[t] = "d_lock"
    /\ MuLock(t, "d_delete")
    /\ UNCHANGED <<checking, fsVars, inMu, dhMu, req, frame, ret, aborted, histVars>>

\* The release that checks the handle but leaves it in the table.
ReleaseDirHandle_Delete_Kept(t) ==
    /\ pc[t] = "d_delete"
    /\ IF req[t].Handle \in DOMAIN handles
       THEN /\ UNCHANGED handles
            /\ Step(t, "d_unlock", frame[t])
       ELSE /\ UNCHANGED handles
            /\ Step(t, "d_unlock", [frame[t] EXCEPT !.err = "panic"])
    /\ UNCHANGED <<checking, uid, gid, dirInodes, inodes, nextInodeID, dirNameIndex,
                   dirHandles, nextHandleID, lockVars, req, ret, aborted, histVars, snap>>

\* The release without the sanity check: deleting a missing key is a no-op
\* and the call acknowledges.
ReleaseDirHandle_Delete_Unchecked(t) ==
    /\ pc[t] = "d_delete"
    /\ handles' = MapDelete(handles, req[t].Handle)
    /\ Step(t, "d_unlock", frame[t])
    /\ UNCHANGED <<checking, uid, gid, dirInodes, inodes, nextInodeID, dirNameIndex,
                   dirHandles, nextHandleID, lockVars, req, ret, aborted, histVars, snap>>

\* _ = fs.handles[req.Handle].(*dirHandle); delete(fs.handles, req.Handle)
ReleaseDirHandle_Delete(t) ==
    /\ pc[t] = "d_delete"
    /\ IF req[t].Handle \in DOMAIN handles
       THEN /\ handles' = MapDelete(handles, req[t].Handle)
            /\ Step(t, "d_unlock", frame[t])
       ELSE /\ UNCHANGED handles
            /\ Step(t, "d_unlock", [frame[t] EXCEPT !.err = "panic"])
    /\ UNCHANGED <<checking, uid, gid, dirInodes, inodes, nextInodeID, dirNameIndex,
                   dirHandles, nextHandleID, lockVars, req, ret, aborted, histVars, snap>>

ReleaseDirHandle_Unlock(t) ==
    /\ pc[t] = "d_unlock"
    /\ MuUnlock(t)
    /\ released' = IF pc'[t] = "idle" THEN released \cup {req[t].Handle}
                    ELSE released
    /\ UNCHANGED <<checking, fsVars, inMu, dhMu, aborted, calls, minted, opened>>

\* ------------------------------------------------------------------------
\* The system
\* ------------------------------------------------------------------------
Next ==
    \E t \in Threads :
          \/ Call(t)
          \/ Abort(t)
          \/ Init_Lock(t)
          \/ Init_Store(t)
          \/ Init_Unlock(t)
          \/ LookUpInode_Lock(t)
          \/ LookUpInode_Parent(t)
          \/ LookUpInode_Child(t)
          \/ LookUpInode_Classify(t)
          \/ lookUpOrCreateDirInode_Find(t)
          \/ lookUpOrCreateDirInode_Mint(t)
          \/ lookUpOrCreateDirInode_Create(t)
          \/ lookUpOrCreateDirInode_Index(t)
          \/ LookUpInode_Fill(t)
          \/ LookUpInode_Unlock(t)
          \/ GetInodeAttributes_RLock(t)
          \/ GetInodeAttributes_Find(t)
          \/ GetInodeAttributes_Attrs(t)
          \/ GetInodeAttributes_RUnlock(t)
          \/ OpenDir_Lock(t)
          \/ getDirForReadingOrDie(t)
          \/ OpenDir_Alloc(t)
          \/ OpenDir_InUnlock(t)
          \/ OpenDir_Unlock(t)
          \/ ReadDir_RLock(t)
          \/ ReadDir_Find(t)
          \/ ReadDir_DhLock(t)
          \/ ReadDir_List(t)
          \/ ReadDir_Listed(t)
          \/ ReadDir_DhUnlock(t)
          \/ ReadDir_RUnlock(t)
          \/ ReleaseDirHandle_Lock(t)
          \/ ReleaseDirHandle_Delete(t)
          \/ ReleaseDirHandle_Unlock(t)

Spec == Init /\ [][Next]_vars

\* ------------------------------------------------------------------------
\* Vocabulary of the properties
\* ------------------------------------------------------------------------
\* Non-empty and not ending in the separator.
FileLike(name) == Len(name) > 0 /\ name[Len(name)] # Separator
\* Empty or ending in the separator.
DirectoryLike(name) == Len(name) = 0 \/ name[Len(name)] = Separator

HoldsMu(t) == muWriter = t \/ t \in muReaders
HoldsInner(t) ==
    \/ \E r \in DOMAIN inMu : t \in inMu[r]
    \/ \E h \in DOMAIN dhMu : dhMu[h] = t
AcquiringMu(t) ==
    pc[t] \in {"i_lock", "l_lock", "g_rlock", "o_lock", "r_rlock", "d_lock"}
Over(t) == pc[t] \in {"crash", "dead"}

\* The goroutine is in LookUpInode and the parent's lookup produced a record.
Resolved(t) == req[t].op = "LookUpInode" /\ frame[t].o # << >>
ResolvedName(t) == frame[t].o[1].Name

\* C1: concurrent Resolve-child calls for one directory-like name all
\* return the one identifier the name index holds for it, the inode counter
\* having advanced once in total and the index holding one entry for the name.
C1_Deduplication ==
    \A t \in Threads :
        (Resolved(t) /\ DirectoryLike(ResolvedName(t))
           /\ pc[t] \in {"l_unlock", "crash", "dead"}) =>
             /\ frame[t].err # "panic"
             /\ frame[t].resp # << >>
             /\ ResolvedName(t) \in DOMAIN dirNameIndex
             /\ frame[t].resp[1].Child = dirInodes[dirNameIndex[ResolvedName(t)]].ID
             /\ Cardinality({k \in DOMAIN inodes :
                               dirInodes[inodes[k]].Name = ResolvedName(t)}) = 1

\* C2: whenever nobody holds fs.mu exclusively, the directory inodes of the
\* inode table are exactly the values of the name index (the same objects,
\* as many of them), every key of the index is a directory name, and the
\* inode indexed under a key carries that key as its name.
C2_IndexBijection ==
    muWriter = 0 =>
        /\ Range(inodes) = Range(dirNameIndex)
        /\ Cardinality(DOMAIN dirNameIndex) = Cardinality(Range(inodes))
        /\ Cardinality(DOMAIN inodes) = Cardinality(Range(inodes))
        /\ \A k \in DOMAIN dirNameIndex :
              /\ DirectoryLike(k)
              /\ dirInodes[dirNameIndex[k]].Name = k

\* A directory other than the root is registered and fs.mu is free again.
C2_Witness ==
    /\ muWriter = 0
    /\ Cardinality(DOMAIN dirNameIndex) >= 2
    /\ Cardinality(DOMAIN inodes) >= 2

\* C3: every inode ID in use is at least the root's and below the counter,
\* each inode carries the ID it is stored under, no two IDs share an inode,
\* and the root ID is present (every inode of the table is a directory).
C3_IdentifierBounds ==
    /\ \A k \in DOMAIN inodes :
          /\ RootInodeID <= k
          /\ k < nextInodeID
          /\ dirInodes[inodes[k]].ID = k
    /\ \A k1, k2 \in DOMAIN inodes : k1 # k2 => inodes[k1] # inodes[k2]
    /\ RootInodeID \in DOMAIN inodes
    /\ inodes[RootInodeID] \in DOMAIN dirInodes

\* An inode beyond the root has been minted and stored.
C3_Witness == \E k \in DOMAIN inodes : k > RootInodeID

\* C4: a ReadDir on handle H is served only while H was returned by a
\* completed OpenDir and no ReleaseDirHandle(H) has completed; a released H
\* is gone from the handle table, and a ReadDir that looks it up afterwards
\* panics instead of being served.
Serving(t) ==
    /\ req[t].op = "ReadDir"
    /\ \/ pc[t] \in {"r_dhlock", "r_list", "r_listing", "r_dhunlock"}
       \/ pc[t] = "r_runlock" /\ frame[t].err # "panic"
Rejected(t) ==
    /\ req[t].op = "ReadDir"
    /\ frame[t].err = "panic"
    /\ frame[t].dh = 0
    /\ pc[t] \in {"r_runlock", "crash", "dead"}

C4_HandleLifecycle ==
    /\ \A h \in released : h \notin DOMAIN handles
    /\ \A t \in Threads :
          /\ Serving(t) =>
                /\ req[t].Handle \in opened
                /\ req[t].Handle \notin released
                /\ req[t].Handle \in DOMAIN handles
          /\ (req[t].op = "ReadDir" /\ req[t].Handle \in released
                 /\ pc[t] \in {"r_runlock", "crash", "dead"}) => Rejected(t)

\* A ReadDir on a handle that was opened and then released has panicked.
C4_Witness ==
    \E t \in Threads :
        /\ Rejected(t)
        /\ req[t].Handle \in opened
        /\ req[t].Handle \in released

\* C5: the attributes GetInodeAttributes returns carry fs.uid and fs.gid,
\* and a LookUpInode that found or made the child's directory inode
\* completes with a response whose attributes carry them as well.
C5_OwnerOverlay ==
    \A t \in Threads :
        /\ (req[t].op = "GetInodeAttributes" /\ pc[t] = "g_runlock"
               /\ frame[t].err = "nil") =>
                 /\ frame[t].resp[1].Attributes.Uid = uid
                 /\ frame[t].resp[1].Attributes.Gid = gid
        /\ (Resolved(t) /\ frame[t].in # 0 /\ pc[t] = "l_unlock") =>
                 /\ frame[t].err # "panic"
                 /\ frame[t].err = "nil" =>
                       /\ frame[t].resp # << >>
                       /\ frame[t].resp[1].Attributes.Uid = uid
                       /\ frame[t].resp[1].Attributes.Gid = gid

\* C6 as claimed: a freshly constructed file system has both counters at
\* one past the root inode ID.
C6_BothCountersPastRoot ==
    calls = 0 =>
        /\ nextInodeID = RootInodeID + 1
        /\ nextHandleID = RootInodeID + 1

\* C6 as amended: a freshly constructed file system has the inode counter at
\* one past the root inode ID and the handle counter at zero.
C6_InitialCounters ==
    calls = 0 =>
        /\ nextInodeID = RootInodeID + 1
        /\ nextHandleID = 0

\* The file system as constructed: the root alone, nothing called yet.
C6_Witness ==
    /\ calls = 0
    /\ DOMAIN inodes = {RootInodeID}
    /\ DOMAIN handles = {}
    /\ \A t \in Threads : pc[t] = "idle"

\* C7: a LookUpInode whose child resolves to a file-like name goes straight
\* to returning the not-implemented error without a response, and while it
\* holds fs.mu the inode table, the name index and the inode counter are what
\* they were when it took the lock.
C7_FileChildrenMintNothing ==
    \A t \in Threads :
        (Resolved(t) /\ FileLike(ResolvedName(t)) /\ muWriter = t) =>
            /\ pc[t] \in {"l_classify", "l_unlock", "killed"}
            /\ pc[t] = "l_unlock" =>
                  /\ frame[t].err = "Unimplemented"
                  /\ frame[t].resp = << >>
            /\ inodes = snap[t][1].inodes
            /\ dirNameIndex = snap[t][1].dirNameIndex
            /\ nextInodeID = snap[t][1].nextInodeID
            /\ dirInodes = snap[t][1].dirInodes

\* A LookUpInode of a file-like child is about to return its error.
C7_Witness ==
    \E t \in Threads :
        /\ Resolved(t)
        /\ FileLike(ResolvedName(t))
        /\ pc[t] = "l_unlock"
        /\ frame[t].err = "Unimplemented"

\* C8: a GetInodeAttributes whose inode ID is no key of the inode table
\* panics: it returns neither attributes nor an error to its caller, and as
\* it unwinds the coordinator's state is what it was when it took the lock.
\* GetInodeAttributes only ever returns nil or the directory's own failure.
C8_UnknownInodeIsFatal ==
    \A t \in Threads :
        /\ (req[t].op = "GetInodeAttributes" /\ pc[t] = "g_runlock"
               /\ req[t].Inode \notin DOMAIN inodes) =>
                 /\ frame[t].err = "panic"
                 /\ ret[t] = NoReturn
                 /\ Coordinator = snap[t][1]
        /\ (req[t].op = "GetInodeAttributes" /\ Over(t) /\ frame[t].in = 0) =>
                 /\ frame[t].err = "panic"
                 /\ ret[t] = NoReturn
        /\ ret[t].op = "GetInodeAttributes" =>
                 ret[t].err \in {"nil", "DirInode.Attributes"}

\* A GetInodeAttributes on an unknown inode ID has killed the process.
C8_Witness ==
    \E t \in Threads :
        /\ req[t].op = "GetInodeAttributes"
        /\ pc[t] = "dead"
        /\ frame[t].in = 0
        /\ aborted

\* C9: the handle IDs OpenDir has allocated are pairwise different, the
\* handle counter has advanced by one for each of them, every handle ID
\* OpenDir returned is one of them, and every key of the handle table is
\* below the counter.
C9_HandleIDsNeverReused ==
    /\ \A i, j \in DOMAIN minted : i # j => minted[i] # minted[j]
    /\ \A i \in DOMAIN minted : minted[i] = minted[1] + (i - 1)
    /\ minted # << >> => nextHandleID = minted[1] + Len(minted)
    /\ opened \subseteq Range(minted)
    /\ \A k \in DOMAIN handles : k < nextHandleID

\* A second handle was opened though the first had been released.
C9_Witness ==
    /\ Len(minted) >= 2
    /\ minted[1] \in released
    /\ minted[2] \in DOMAIN handles

\* C10: a goroutine that holds a DirInode's or a dirHandle's lock holds
\* fs.mu, and a goroutine about to acquire fs.mu holds neither.
C10_LockOrdering ==
    \A t \in Threads :
        /\ HoldsInner(t) => HoldsMu(t)
        /\ AcquiringMu(t) => ~HoldsInner(t)
        /\ pc[t] = "idle" => ~HoldsInner(t) /\ ~HoldsMu(t)

\* One goroutine holds a directory's lock under fs.mu held exclusively,
\* or a handle's lock under fs.mu held shared.
C10_Witness ==
    \E t, u \in Threads :
        /\ \E h \in DOMAIN dhMu : dhMu[h] = t
        /\ t \in muReaders
        /\ AcquiringMu(u)

\* The state the coordinator lock guards.
Guarded == <<uid, gid, inodes, nextInodeID, dirNameIndex, handles, nextHandleID>>

\* C11: fs.mu is never held exclusively and shared at once, only
\* GetInodeAttributes and ReadDir hold it shared, and every step that changes
\* the owner, the inode table, the name index, the handle table or a counter
\* is a step of the one goroutine that holds fs.mu exclusively.
C11_MutationsExclusive ==
    /\ [](/\ muWriter # 0 => muReaders = {}
          /\ \A t \in muReaders : req[t].op \in {"GetInodeAttributes", "ReadDir"})
    /\ [][Guarded' # Guarded =>
            /\ muWriter \in Threads
            /\ muReaders = {}
            /\ muWriter' = muWriter
            /\ pc'[muWriter] # pc[muWriter]
            /\ \A u \in Threads \ {muWriter} : pc'[u] = pc[u]]_vars

\* The goroutine holding fs.mu exclusively has changed the guarded state
\* while another goroutine waits for the lock.
C11_Witness ==
    \E t, u \in Threads :
        /\ muWriter = t
        /\ Coordinator # snap[t][1]
        /\ u # t
        /\ AcquiringMu(u)

\* The goroutine is inside a handle's listing: it has taken the handle's
\* lock for ReadDir and has not yet given it back.
Listing(t) ==
    /\ req[t].op = "ReadDir"
    /\ pc[t] \in {"r_list", "r_listing", "r_dhunlock"}

\* C12: two goroutines are never inside the listing of the same handle at
\* once, and a goroutine inside a listing holds that handle's lock.
C12_OneReaderPerHandle ==
    /\ \A t, u \in Threads :
          (t # u /\ Listing(t) /\ Listing(u)) => frame[t].dh # frame[u].dh
    /\ \A t \in Threads : Listing(t) => dhMu[frame[t].dh] = t

\* One ReadDir is inside a handle's listing while another ReadDir on the
\* same handle waits for the handle's lock.
C12_Witness ==
    \E t, u \in Threads :
        /\ t # u
        /\ pc[t] = "r_listing"
        /\ req[u].op = "ReadDir"
        /\ pc[u] = "r_dhlock"
        /\ frame[u].dh = frame[t].dh

\* The child lookup against the backing store failed.
LookupFailed(t) ==
    /\ req[t].op = "LookUpInode"
    /\ frame[t].err \in {"NotFound", "Cancelled"}

\* C13: a LookUpInode whose child lookup failed goes straight to returning
\* that failure, without a response, and the coordinator's state is what it
\* was when the call took fs.mu; what LookUpInode returns with such an error
\* carries no response.
C13_FailedLookupChangesNothing ==
    \A t \in Threads :
        /\ (LookupFailed(t) /\ muWriter = t) =>
              /\ pc[t] \in {"l_unlock", "killed"}
              /\ frame[t].o = << >>
              /\ frame[t].resp = << >>
              /\ Coordinator = snap[t][1]
        /\ LookupFailed(t) => pc[t] \in {"l_unlock", "killed"}
        /\ (ret[t].op = "LookUpInode" /\ ret[t].err \in {"NotFound", "Cancelled"}) =>
              ret[t].resp = << >>

\* A LookUpInode is about to return the cancellation of its child lookup.
C13_Witness ==
    \E t \in Threads :
        /\ LookupFailed(t)
        /\ frame[t].err = "Cancelled"
        /\ pc[t] = "l_unlock"
        /\ muWriter = t

\* The goroutine's LookUpInode resolved a directory name that the name index
\* already held when the call took fs.mu.
AlreadyRegistered(t) ==
    /\ Resolved(t)
    /\ muWriter = t
    /\ ResolvedName(t) \in DOMAIN snap[t][1].dirNameIndex

\* The inode table and the name index only grow, no entry of either is
\* replaced, and the inode counter does not decrease.
Persist ==
    /\ \A k \in DOMAIN inodes : k \in DOMAIN inodes' /\ inodes'[k] = inodes[k]
    /\ \A n \in DOMAIN dirNameIndex :
          n \in DOMAIN dirNameIndex' /\ dirNameIndex'[n] = dirNameIndex[n]
    /\ \A r \in DOMAIN dirInodes : r \in DOMAIN dirInodes' /\ dirInodes'[r] = dirInodes[r]
    /\ nextInodeID' >= nextInodeID

\* C14: nothing is ever removed from the inode table or the name index and
\* the inode counter never decreases, and a LookUpInode that resolves to a
\* name registered before it took fs.mu mints nothing and returns the
\* identifier the name was registered under.
C14_EntitiesPersist ==
    /\ [][Persist]_vars
    /\ [](\A t \in Threads :
            AlreadyRegistered(t) =>
                /\ nextInodeID = snap[t][1].nextInodeID
                /\ inodes = snap[t][1].inodes
                /\ dirNameIndex = snap[t][1].dirNameIndex
                /\ pc[t] = "l_unlock" =>
                      /\ frame[t].err # "panic"
                      /\ frame[t].resp # << >>
                      /\ frame[t].resp[1].Child =
                            dirInodes[dirNameIndex[ResolvedName(t)]].ID)

\* C15: a GetInodeAttributes about to fetch a directory's attributes holds
\* fs.mu and holds that directory's own lock shared.
C15_AttributesUnderDirLock ==
    \A t \in Threads :
        (req[t].op = "GetInodeAttributes" /\ pc[t] = "g_attrs") =>
            /\ HoldsMu(t)
            /\ t \in inMu[frame[t].in]

\* The goroutine's ReadDir has resolved its handle and has not yet finished
\* the listing.
MidRead(t) ==
    /\ req[t].op = "ReadDir"
    /\ frame[t].dh # 0
    /\ pc[t] \in {"r_dhlock", "r_list", "r_listing"}

\* C16: while a ReadDir is between resolving handle H and the end of its
\* listing, H is a key of the handle table and still maps to the handle the
\* read resolved, and a ReleaseDirHandle(H) of another goroutine is either
\* still waiting for fs.mu or panicked, before the handle was opened, having
\* released nothing.
C16_NoReleaseMidRead ==
    \A t \in Threads :
        MidRead(t) =>
            /\ req[t].Handle \in DOMAIN handles
            /\ handles[req[t].Handle] = frame[t].dh
            /\ \A u \in Threads :
                  (req[u].op = "ReleaseDirHandle" /\ req[u].Handle = req[t].Handle)
                      => \/ pc[u] = "d_lock"
                         \/ pc[u] = "crash" /\ frame[u].err = "panic"

\* A ReadDir is inside its listing while a ReleaseDirHandle of the same
\* handle waits.
C16_Witness ==
    \E t, u \in Threads :
        /\ MidRead(t)
        /\ pc[t] = "r_listing"
        /\ req[u].op = "ReleaseDirHandle"
        /\ req[u].Handle = req[t].Handle
        /\ pc[u] = "d_lock"

\* The goroutine's ReleaseDirHandle names a handle ID that was no key of the
\* handle table when the call took fs.mu.
ReleasingUnknown(t) ==
    /\ req[t].op = "ReleaseDirHandle"
    /\ muWriter = t
    /\ req[t].Handle \notin DOMAIN snap[t][1].handles

\* C17: a ReleaseDirHandle of a handle ID that is no key of the handle
\* table, never opened or already released, panics: it returns nothing, and
\* as it unwinds the handle table and the handle counter are what they were
\* when it took fs.mu.  ReleaseDirHandle never returns an error.
C17_UnknownReleaseIsFatal ==
    \A t \in Threads :
        /\ (ReleasingUnknown(t) /\ pc[t] = "d_unlock") =>
              /\ frame[t].err = "panic"
              /\ ret[t] = NoReturn
              /\ handles = snap[t][1].handles
              /\ nextHandleID = snap[t][1].nextHandleID
        /\ (req[t].op = "ReleaseDirHandle" /\ Over(t)) =>
              /\ frame[t].err = "panic"
              /\ ret[t] = NoReturn
        /\ ret[t].op = "ReleaseDirHandle" => ret[t].err = "nil"

\* A second ReleaseDirHandle of a handle already released has killed the
\* process.
C17_Witness ==
    \E t \in Threads :
        /\ req[t].op = "ReleaseDirHandle"
        /\ pc[t] = "dead"
        /\ req[t].Handle \in released
        /\ aborted

ReadOnlyOps == {"GetInodeAttributes", "ReadDir"}

\* C18: no step of a GetInodeAttributes or ReadDir call, from the request
\* to the return or the panic, changes the owner, the inode table, the name
\* index, the handle table, either counter, or the inodes themselves.
C18_ReadOnlyOps ==
    [][\A t \in Threads :
          (pc'[t] # pc[t] /\ (req[t].op \in ReadOnlyOps \/ req'[t].op \in ReadOnlyOps))
              => /\ Guarded' = Guarded
                 /\ dirInodes' = dirInodes
                 /\ DOMAIN dirHandles' = DOMAIN dirHandles]_vars

\* A ReadDir has served a page and moved its handle's cursor.
C18_Witness ==
    \E t \in Threads :
        /\ req[t].op = "ReadDir"
        /\ pc[t] = "r_runlock"
        /\ frame[t].err = "nil"
        /\ dirHandles[frame[t].dh].cursor > 0

\* The goroutine's LookUpInode resolved a directory name the name index did
\* not hold when the call took fs.mu, and is done but for the unlock.
NewlyRegistered(t) ==
    /\ Resolved(t)
    /\ muWriter = t
    /\ DirectoryLike(ResolvedName(t))
    /\ ResolvedName(t) \notin DOMAIN snap[t][1].dirNameIndex
    /\ pc[t] = "l_unlock"

\* C19: a LookUpInode that registered a new directory goes on to fetch its
\* attributes and returns to its caller, with the fetch's failure if it
\* failed; either way the new inode is in the inode table and in the name
\* index, and the inode counter is one more than before.
C19_LateFailureKeepsMint ==
    \A t \in Threads :
        NewlyRegistered(t) =>
            /\ nextInodeID = snap[t][1].nextInodeID + 1
            /\ ResolvedName(t) \in DOMAIN dirNameIndex
            /\ dirNameIndex[ResolvedName(t)] = frame[t].in
            /\ snap[t][1].nextInodeID \in DOMAIN inodes
            /\ inodes[snap[t][1].nextInodeID] = frame[t].in
            /\ frame[t].err \in {"nil", "AttributesFailed"}
            /\ frame[t].resp # << >>

\* ------------------------------------------------------------------------
\* Progress
\* ------------------------------------------------------------------------
\* A goroutine taking fs.mu, a directory's lock or a handle's lock.
Acquire(t) ==
    \/ Init_Lock(t)
    \/ LookUpInode_Lock(t)
    \/ GetInodeAttributes_RLock(t)
    \/ OpenDir_Lock(t)
    \/ ReadDir_RLock(t)
    \/ ReadDir_DhLock(t)
    \/ ReleaseDirHandle_Lock(t)

\* Every other step of a goroutine serving a request; the calls into the
\* backing store are among them, so they return.
Work(t) ==
    \/ Abort(t)
    \/ Init_Store(t)
    \/ Init_Unlock(t)
    \/ LookUpInode_Parent(t)
    \/ LookUpInode_Child(t)
    \/ LookUpInode_Classify(t)
    \/ lookUpOrCreateDirInode_Find(t)
    \/ lookUpOrCreateDirInode_Mint(t)
    \/ lookUpOrCreateDirInode_Create(t)
    \/ lookUpOrCreateDirInode_Index(t)
    \/ LookUpInode_Fill(t)
    \/ LookUpInode_Unlock(t)
    \/ GetInodeAttributes_Find(t)
    \/ GetInodeAttributes_Attrs(t)
    \/ GetInodeAttributes_RUnlock(t)
    \/ getDirForReadingOrDie(t)
    \/ OpenDir_Alloc(t)
    \/ OpenDir_InUnlock(t)
    \/ OpenDir_Unlock(t)
    \/ ReadDir_Find(t)
    \/ ReadDir_List(t)
    \/ ReadDir_Listed(t)
    \/ ReadDir_DhUnlock(t)
    \/ ReadDir_RUnlock(t)
    \/ ReleaseDirHandle_Delete(t)
    \/ ReleaseDirHandle_Unlock(t)

\* The scheduler runs every goroutine that can run, and a goroutine that
\* can take a lock again and again does take it.
FairSpec ==
    /\ Spec
    /\ \A t \in Threads : WF_vars(Work(t)) /\ SF_vars(Acquire(t))

\* The goroutine is serving a request that has neither returned nor died.
Pending(t) == pc[t] \notin {"idle", "dead", "killed"}

\* C20: whenever requests are pending some goroutine can take a step, so
\* they are never all blocked on locks; a goroutine that has returned or
\* panicked holds no lock; and every pending request eventually returns or
\* ends with the process.
C20_DeadlockFreedom ==
    /\ []((\E t \in Threads : Pending(t)) =>
            \E t \in Threads : ENABLED (Work(t) \/ Acquire(t)))
    /\ [](\A t \in Threads :
            pc[t] \in {"idle", "crash", "dead"} => ~HoldsMu(t) /\ ~HoldsInner(t))
    /\ \A t \in Threads : Pending(t) ~> ~Pending(t)

\* A request waits for fs.mu exclusively while a ReadDir holds it shared
\* together with its handle's lock.
C20_Witness ==
    \E t, u \in Threads :
        /\ pc[t] \in {"i_lock", "l_lock", "o_lock", "d_lock"}
        /\ u \in muReaders
        /\ \E h \in DOMAIN dhMu : dhMu[h] = u
====
